---------------------------- MODULE Spec2Model ----------------------------
(***************************************************************************)
(* Model of spiral-rs: the Contents-line grammar (apt_parser/contents),    *)
(* the streaming entry iterators, the library reducer                      *)
(* (spiral/metadata/contents.rs) and the name translator                   *)
(* (spiral/translate.rs).                                                  *)
(*                                                                         *)
(* Bytes are one-character strings, byte slices are sequences of them.     *)
(* Option<T> is a sequence of length 0 (None) or 1 (Some).                 *)
(* A nom IResult is a record [ok, rest, val]; on failure val is <<>>.      *)
(***************************************************************************)
EXTENDS Integers, Sequences, FiniteSets, TLC

(***************************************************************************)
(* Byte classes (nom::character) and the grammar's constants               *)
(***************************************************************************)
LowerChars == <<"a","b","c","d","e","f","g","h","i","j","k","l","m",
                "n","o","p","q","r","s","t","u","v","w","x","y","z">>
UpperChars == <<"A","B","C","D","E","F","G","H","I","J","K","L","M",
                "N","O","P","Q","R","S","T","U","V","W","X","Y","Z">>
LowerCase == {LowerChars[i] : i \in 1..26}
UpperCase == {UpperChars[i] : i \in 1..26}
DigitChars == <<"0","1","2","3","4","5","6","7","8","9">>
Digits == {DigitChars[i] : i \in 1..10}

PATH_SEPARATOR == <<"/">>
SOVER_SEPARATOR == <<".">>
SONAME_SEPARATOR == <<".", "s", "o">>
SECTION_SEPARATOR == <<"/">>
LIST_SEPARATOR == <<",">>
NEWLINE == <<"\n">>

is_space(chr) == chr = " " \/ chr = "\t"
is_digit(chr) == chr \in Digits
is_alphanumeric(chr) == chr \in LowerCase \cup UpperCase \cup Digits
is_section_name(chr) == is_alphanumeric(chr) \/ chr \in {"-"}
is_package_name(chr) == chr \in LowerCase \/ chr \in Digits \/ chr \in {"+", "-", "_", "."}
is_soname(chr) == is_alphanumeric(chr) \/ chr \in {"+", "-", "_"}
is_file_name(chr) == ~(chr \in {"\t", "/"})

(***************************************************************************)
(* Helpers on sequences                                                    *)
(***************************************************************************)
MinOf(S) == CHOOSE x \in S : \A y \in S : x <= y
MaxOf(S) == CHOOSE x \in S : \A y \in S : x >= y
Drop(s, n) == SubSeq(s, n + 1, Len(s))
Take(s, n) == SubSeq(s, 1, n)
StartsWith(s, t) == Len(s) >= Len(t) /\ Take(s, Len(t)) = t

RECURSIVE Flatten(_)
Flatten(ss) == IF ss = <<>> THEN <<>> ELSE Head(ss) \o Flatten(Tail(ss))

RECURSIVE JoinWith(_, _)
JoinWith(ss, sep) ==
    IF ss = <<>> THEN <<>>
    ELSE IF Len(ss) = 1 THEN Head(ss)
    ELSE Head(ss) \o sep \o JoinWith(Tail(ss), sep)

\* all sequences over S of length at most n
SeqsUpTo(S, n) == UNION {[1..k -> S] : k \in 0..n}

(***************************************************************************)
(* nom primitives: a result is [ok, rest, val].  A byte class is the set   *)
(* of the bytes of Bytes that satisfy the class predicate.                 *)
(***************************************************************************)
Bytes == LowerCase \cup UpperCase \cup Digits \cup
         {" ", "\t", "\n", "\r", "/", ".", ",", "+", "-", "_", ":", "~"}
SpaceClass == {b \in Bytes : is_space(b)}
DigitClass == {b \in Bytes : is_digit(b)}
SectionNameClass == {b \in Bytes : is_section_name(b)}
PackageNameClass == {b \in Bytes : is_package_name(b)}
SonameClass == {b \in Bytes : is_soname(b)}
FileNameClass == {b \in Bytes : is_file_name(b)}

Fail(input) == [ok |-> FALSE, rest |-> input, val |-> <<>>]
Done(rest, val) == [ok |-> TRUE, rest |-> rest, val |-> val]

\* length of the maximal prefix of s whose bytes are all in class
PrefixLen(class, s) ==
    MinOf({i \in 1..Len(s) : s[i] \notin class} \cup {Len(s) + 1}) - 1

SplitAt(input, n) == Done(Drop(input, n), Take(input, n))

take_while(class, input) == SplitAt(input, PrefixLen(class, input))

take_while1(class, input) ==
    IF PrefixLen(class, input) = 0 THEN Fail(input)
    ELSE SplitAt(input, PrefixLen(class, input))

tag(t, input) ==
    IF StartsWith(input, t) THEN Done(Drop(input, Len(t)), t) ELSE Fail(input)

separator(input) == take_while(SpaceClass, input)

(***************************************************************************)
(* Value types (contents/mod.rs 68-104, 281-333)                           *)
(***************************************************************************)
None == <<>>
Some(x) == <<x>>

Whitespace == {" ", "\t", "\n", "\r"}

\* str::trim_end: drop the trailing whitespace characters
trim_end(s) ==
    Take(s, MaxOf({i \in 1..Len(s) : s[i] \notin Whitespace} \cup {0}))

\* SharedLibrary::from_bytes / File::so
File_so(soname, sover) ==
    [tag |-> "SharedLibrary", name |-> trim_end(soname), sover |-> sover]

\* File::normal
File_normal(name) ==
    [tag |-> "Normal", name |-> trim_end(name), sover |-> <<>>]

\* ContentsPath::new; parent is the text held by the PathBuf
ContentsPath_new(parent, file) == [parent |-> parent, file |-> file]

\* PackageName::from_bytes
PackageName_from_bytes(area, section, name) ==
    [area |-> area, section |-> section, name |-> name]

\* ContentsEntry::new
ContentsEntry_new(path, packages) == [path |-> path, packages |-> packages]

(***************************************************************************)
(* A local binding `let x = e` is written The({ body : x \in {e} }), so    *)
(* that e is evaluated once however often the body reads x.                *)
(***************************************************************************)
The(S) == CHOOSE x \in S : TRUE

(***************************************************************************)
(* Path grammar (contents/mod.rs 136-188)                                  *)
(***************************************************************************)
\* terminated(take_while(is_file_name), tag(PATH_SEPARATOR))
take_path_segment(input) ==
    The({ The({ IF sep.ok THEN Done(sep.rest, seg.val) ELSE Fail(input)
                : sep \in {tag(PATH_SEPARATOR, seg.rest)} })
          : seg \in {take_while(FileNameClass, input)} })

\* many0(take_path_segment): the list of segments and the rest
RECURSIVE many0_take_path_segment(_)
many0_take_path_segment(input) ==
    The({ IF ~r.ok THEN Done(input, <<>>)
          ELSE The({ Done(more.rest, <<r.val>> \o more.val)
                     : more \in {many0_take_path_segment(r.rest)} })
          : r \in {take_path_segment(input)} })

\* mutant: the segments are concatenated without the separator
many0_path_segments_unjoined(input) ==
    The({ Done(r.rest, Flatten(r.val))
          : r \in {many0_take_path_segment(input)} })

\* segments.join(&b'/') turned into a PathBuf
many0_path_segments(input) ==
    The({ Done(r.rest, JoinWith(r.val, <<"/">>))
          : r \in {many0_take_path_segment(input)} })

DigitValue(chr) == (CHOOSE i \in 1..10 : DigitChars[i] = chr) - 1

\* the width of usize, scaled down to the narrowest pointer width of a Rust
\* target so that the arithmetic stays inside the integers of the checker;
\* at 64 bits the same happens with runs of 20 digits and more
USIZE_BITS == 16
usize_MAX == 2^USIZE_BITS - 1

\* sover.iter().fold(0, |acc, digit| acc * 10 + (digit - b'0') as usize)
\* with the arithmetic of a build without overflow checks (release profile):
\* two's complement wrapping at the width of usize
RECURSIVE FoldDigits(_, _)
FoldDigits(acc, digits) ==
    IF digits = <<>> THEN acc
    ELSE FoldDigits((acc * 10 + DigitValue(Head(digits))) % (usize_MAX + 1), Tail(digits))

\* some acc * 10 + digit of the fold does not fit usize
RECURSIVE FoldOverflows(_, _)
FoldOverflows(acc, digits) ==
    /\ digits # <<>>
    /\ \/ acc * 10 + DigitValue(Head(digits)) > usize_MAX
       \/ FoldOverflows(acc * 10 + DigitValue(Head(digits)), Tail(digits))

\* preceded(tag(SOVER_SEPARATOR), take_while1(is_digit)), then the fold
sover_segment(input) ==
    The({ IF ~dot.ok THEN Fail(input)
          ELSE The({ IF ~run.ok THEN Fail(input)
                     ELSE Done(run.rest, FoldDigits(0, run.val))
                     : run \in {take_while1(DigitClass, dot.rest)} })
          : dot \in {tag(SOVER_SEPARATOR, input)} })

\* the outcome of a call that panicked
Panicked == [ok |-> FALSE, rest |-> <<>>, val |-> <<>>, panic |-> TRUE]

\* sover_segment in a build with overflow checks (dev profile): the fold
\* panics with "attempt to multiply with overflow" / "attempt to add with
\* overflow" instead of wrapping
sover_segment_overflow_checks(input) ==
    The({ IF ~dot.ok THEN Fail(input)
          ELSE The({ IF ~run.ok THEN Fail(input)
                     ELSE IF FoldOverflows(0, run.val) THEN Panicked
                     ELSE Done(run.rest, FoldDigits(0, run.val))
                     : run \in {take_while1(DigitClass, dot.rest)} })
          : dot \in {tag(SOVER_SEPARATOR, input)} })

RECURSIVE many0_sover_segment(_)
many0_sover_segment(input) ==
    The({ IF ~r.ok THEN Done(input, <<>>)
          ELSE The({ Done(more.rest, <<r.val>> \o more.val)
                     : more \in {many0_sover_segment(r.rest)} })
          : r \in {sover_segment(input)} })

\* tuple((terminated(take_while1(is_soname), tag(SONAME_SEPARATOR)),
\*        many0_sover_segment, take_while1(is_space)))
take_file_so(input) ==
    The({ IF ~run.ok THEN Fail(input)
          ELSE The({ IF ~marker.ok THEN Fail(input)
                     ELSE The({ The({ IF ~space.ok THEN Fail(input)
                                      ELSE Done(space.rest, File_so(run.val, sover.val))
                                      : space \in {take_while1(SpaceClass, sover.rest)} })
                                : sover \in {many0_sover_segment(marker.rest)} })
                     : marker \in {tag(SONAME_SEPARATOR, run.rest)} })
          : run \in {take_while1(SonameClass, input)} })

\* tuple((take_while(is_file_name), separator))
take_file_else(input) ==
    The({ The({ Done(sep.rest, File_normal(name.val))
                : sep \in {separator(name.rest)} })
          : name \in {take_while(FileNameClass, input)} })

\* mutant: the alternatives are tried in the other order
take_file_else_first(input) ==
    The({ IF normal.ok THEN normal ELSE take_file_so(input)
          : normal \in {take_file_else(input)} })

\* alt((take_file_so, take_file_else))
take_file(input) ==
    The({ IF so.ok THEN so ELSE take_file_else(input)
          : so \in {take_file_so(input)} })

\* tuple((many0_path_segments, take_file))
take_path(input) ==
    The({ The({ IF ~file.ok THEN Fail(input)
                ELSE Done(file.rest, ContentsPath_new(path.val, file.val))
                : file \in {take_file(path.rest)} })
          : path \in {many0_path_segments(input)} })

\* mutant: the library-only entry point permits either terminal
take_path_so_any_file(input) == take_path(input)

\* tuple((many0_path_segments, take_file_so))
take_path_so(input) ==
    The({ The({ IF ~file.ok THEN Fail(input)
                ELSE Done(file.rest, ContentsPath_new(path.val, file.val))
                : file \in {take_file_so(path.rest)} })
          : path \in {many0_path_segments(input)} })

(***************************************************************************)
(* Package list grammar (contents/mod.rs 190-220)                          *)
(***************************************************************************)
take_package_name(input) == take_while1(PackageNameClass, input)

\* terminated(take_while1(is_section_name), tag(SECTION_SEPARATOR))
take_section(input) ==
    The({ IF ~run.ok THEN Fail(input)
          ELSE The({ IF sep.ok THEN Done(sep.rest, run.val) ELSE Fail(input)
                     : sep \in {tag(SECTION_SEPARATOR, run.rest)} })
          : run \in {take_while1(SectionNameClass, input)} })

\* many_m_n(0, max, take_section) with count sections already taken
RECURSIVE many_m_n_take_section(_, _, _)
many_m_n_take_section(count, max, input) ==
    IF count >= max THEN Done(input, <<>>)
    ELSE The({ IF ~r.ok THEN Done(input, <<>>)
               ELSE The({ Done(more.rest, <<r.val>> \o more.val)
                          : more \in {many_m_n_take_section(count + 1, max, r.rest)} })
               : r \in {take_section(input)} })

MaxSections == 2

take_sections(input) == many_m_n_take_section(0, MaxSections, input)

\* mutant: a single qualifier is stored as the area
PackageOf_area_first(sections, name) ==
    CASE Len(sections) = 0 -> PackageName_from_bytes(None, None, name)
      [] Len(sections) = 1 -> PackageName_from_bytes(Some(sections[1]), None, name)
      [] Len(sections) = 2 ->
            PackageName_from_bytes(Some(sections[1]), Some(sections[2]), name)

\* the match on sections.len()
PackageOf(sections, name) ==
    CASE Len(sections) = 0 -> PackageName_from_bytes(None, None, name)
      [] Len(sections) = 1 -> PackageName_from_bytes(None, Some(sections[1]), name)
      [] Len(sections) = 2 ->
            PackageName_from_bytes(Some(sections[1]), Some(sections[2]), name)

\* tuple((take_sections, take_package_name))
take_package(input) ==
    The({ The({ IF ~name.ok THEN Fail(input)
                ELSE Done(name.rest, PackageOf(sections.val, name.val))
                : name \in {take_package_name(sections.rest)} })
          : sections \in {take_sections(input)} })

\* the loop of separated_list1 after its first element
RECURSIVE separated_list1_more(_)
separated_list1_more(input) ==
    The({ IF ~sep.ok THEN Done(input, <<>>)
          ELSE The({ IF ~r.ok THEN Done(input, <<>>)
                     ELSE The({ Done(more.rest, <<r.val>> \o more.val)
                                : more \in {separated_list1_more(r.rest)} })
                     : r \in {take_package(sep.rest)} })
          : sep \in {tag(LIST_SEPARATOR, input)} })

\* mutant: the list is parsed where the input starts, whitespace included
take_packages_unskipped(input) ==
    The({ IF ~first.ok THEN Fail(input)
          ELSE The({ Done(more.rest, <<first.val>> \o more.val)
                     : more \in {separated_list1_more(first.rest)} })
          : first \in {take_package(input)} })

\* preceded(separator, separated_list1(tag(LIST_SEPARATOR), take_package))
take_packages(input) ==
    The({ The({ IF ~first.ok THEN Fail(input)
                ELSE The({ Done(more.rest, <<first.val>> \o more.val)
                           : more \in {separated_list1_more(first.rest)} })
                : first \in {take_package(sp.rest)} })
          : sp \in {separator(input)} })

(***************************************************************************)
(* Line tokenizer (contents/mod.rs 222-248).  A result has                 *)
(* kind "ok" | "err" | "panic"; indices are 0-based as in the source.      *)
(***************************************************************************)
\* the for loop: the index of the last space byte, input.len() if none
LastSpace(input) ==
    The({ IF sp = {} THEN Len(input) ELSE MaxOf(sp)
          : sp \in {{i \in 0..(Len(input) - 1) : is_space(input[i + 1])}} })

LinePanic(input) == [kind |-> "panic", rest |-> input, val |-> <<>>]
LineErr(input) == [kind |-> "err", rest |-> input, val |-> <<>>]
LineOk(rest, entry) == [kind |-> "ok", rest |-> rest, val |-> Some(entry)]

\* the ? on the two parsers and the Ok(..) that follows
LineResult(input, path, packages) ==
    IF ~path.ok \/ ~packages.ok THEN LineErr(input)
    ELSE LineOk(packages.rest, ContentsEntry_new(path.val, packages.val))

\* mutant: the path is parsed from &input[..separate], without the space
take_line_exclusive(input) ==
    The({ IF separate + 1 > Len(input) THEN LinePanic(input)
          ELSE LineResult(input, take_path(Take(input, separate)),
                          take_packages(Drop(input, separate)))
          : separate \in {LastSpace(input)} })

\* &input[..=separate] is out of range when separate = input.len()
take_line(input) ==
    The({ IF separate + 1 > Len(input) THEN LinePanic(input)
          ELSE LineResult(input, take_path(Take(input, separate + 1)),
                          take_packages(Drop(input, separate)))
          : separate \in {LastSpace(input)} })

take_line_so(input) ==
    The({ IF separate + 1 > Len(input) THEN LinePanic(input)
          ELSE LineResult(input, take_path_so(Take(input, separate + 1)),
                          take_packages(Drop(input, separate)))
          : separate \in {LastSpace(input)} })

\* the loop of separated_list0 after its first element: the separator, then
\* take_line on all that follows it; an error of either ends the list, a
\* panic of take_line ends the call
\* Ok((rest, entries)) of the list parser
ListOk(rest, entries) == [kind |-> "ok", rest |-> rest, val |-> entries]

RECURSIVE separated_list0_more(_)
separated_list0_more(input) ==
    The({ IF ~sep.ok THEN ListOk(input, <<>>)
          ELSE The({ IF r.kind = "panic" THEN LinePanic(input)
                     ELSE IF r.kind = "err" THEN ListOk(input, <<>>)
                     ELSE The({ IF more.kind = "panic" THEN more
                                ELSE ListOk(more.rest, <<r.val>> \o more.val)
                                : more \in {separated_list0_more(r.rest)} })
                     : r \in {take_line(sep.rest)} })
          : sep \in {tag(NEWLINE, input)} })

\* separated_list0(tag(NEWLINE), take_line): take_line is handed the whole
\* remaining input each time
parse_multiple_line(input) ==
    The({ IF first.kind = "panic" THEN LinePanic(input)
          ELSE IF first.kind = "err" THEN ListOk(input, <<>>)
          ELSE The({ IF more.kind = "panic" THEN more
                     ELSE ListOk(more.rest, <<first.val>> \o more.val)
                     : more \in {separated_list0_more(first.rest)} })
          : first \in {take_line(input)} })

(***************************************************************************)
(* Display (contents/mod.rs 255-279)                                       *)
(***************************************************************************)
\* the decimal digits of a usize, as write!(f, "{}", n) prints it
RECURSIVE ToDecimal(_)
ToDecimal(n) ==
    IF n < 10 THEN <<DigitChars[n + 1]>>
    ELSE ToDecimal(n \div 10) \o <<DigitChars[(n % 10) + 1]>>

RECURSIVE FmtSover(_)
FmtSover(sover) ==
    IF sover = <<>> THEN <<>>
    ELSE <<".">> \o ToDecimal(Head(sover)) \o FmtSover(Tail(sover))

SharedLibrary_to_string(so) == so.name \o SONAME_SEPARATOR \o FmtSover(so.sover)

File_to_string(file) ==
    IF file.tag = "SharedLibrary" THEN SharedLibrary_to_string(file)
    ELSE file.name

\* Path::join (PathBuf::push): an absolute argument replaces the path, else
\* a separator is added unless the path is empty or already ends in one
Path_join(parent, child) ==
    IF child # <<>> /\ Head(child) = "/" THEN child
    ELSE IF parent # <<>> /\ parent[Len(parent)] # "/" THEN parent \o <<"/">> \o child
    ELSE parent \o child

ContentsPath_to_string(path) == Path_join(path.parent, File_to_string(path.file))

(***************************************************************************)
(* Filters (apt_parser/lib.rs 5-16)                                        *)
(***************************************************************************)
Contains(s, t) == \E i \in 0..(Len(s) - Len(t)) : SubSeq(s, i + 1, i + Len(t)) = t

AcceptAllFilter_filter_bytes(input) == TRUE

\* a pattern-based filter: accepts the lines that hold the pattern
FilterPattern == SONAME_SEPARATOR
PatternFilter_filter_bytes(input) == Contains(input, FilterPattern)

filter_bytes(f, input) ==
    IF f = "AcceptAll" THEN AcceptAllFilter_filter_bytes(input)
    ELSE PatternFilter_filter_bytes(input)

(***************************************************************************)
(* Streaming entry iterators (contents/mod.rs 24-66, 106-107)              *)
(***************************************************************************)
\* BufRead::read_until(b'\n'): the bytes up to and including the first
\* newline, or all the bytes left when there is none
read_until(reader) ==
    The({ [buf |-> Take(reader, n), rest |-> Drop(reader, n)]
          : n \in {MinOf({i \in 1..Len(reader) : reader[i] = "\n"} \cup {Len(reader)})} })

\* the parser the macro was instantiated with
IterFunc(func, buf) == IF func = "take_line" THEN take_line(buf) ELSE take_line_so(buf)

\* the loop of next(): failAt >= 0 is the number of reads that succeed
\* before read_until returns an error; a negative failAt never fails.  The result
\* is what the call returned, the reader it left, and the lines it read.
\* mutant: a read error is raised to the caller
IterStop_error_raised(ret, entry, reader, read, ioerr) ==
    [ret |-> IF ioerr THEN "panic" ELSE ret, entry |-> entry, reader |-> reader,
     read |-> read, ioerr |-> ioerr]

IterStop(ret, entry, reader, read, ioerr) ==
    [ret |-> ret, entry |-> entry, reader |-> reader, read |-> read, ioerr |-> ioerr]

RECURSIVE NextLoop(_, _, _, _, _)
NextLoop(func, f, reader, failAt, read) ==
    IF failAt = 0 THEN IterStop("none", None, reader, read, TRUE)
    ELSE The({
        IF r.buf = <<>> THEN IterStop("none", None, r.rest, read, FALSE)
        ELSE IF ~filter_bytes(f, r.buf)
        THEN NextLoop(func, f, r.rest, failAt - 1, Append(read, r.buf))
        ELSE The({
            IF parsed.kind = "panic"
            THEN IterStop("panic", None, r.rest, Append(read, r.buf), FALSE)
            ELSE IF parsed.kind = "ok"
            THEN IterStop("some", parsed.val, r.rest, Append(read, r.buf), FALSE)
            ELSE NextLoop(func, f, r.rest, failAt - 1, Append(read, r.buf))
            : parsed \in {IterFunc(func, r.buf)} })
        : r \in {read_until(reader)} })

(***************************************************************************)
(* The library values: translate.rs Lib (sover a Vec<usize>) and the       *)
(* metadata Lib of contents.rs (sover an Option<String>)                   *)
(***************************************************************************)
IndexIn(seq, x) == The({ i \in 1..Len(seq) : seq[i] = x })

\* char::to_lowercase on the bytes the model draws from
char_to_lowercase(ch) == IF ch \in UpperCase THEN LowerChars[IndexIn(UpperChars, ch)] ELSE ch

\* str::replace('_', "-")
replace_underscore(s) == [i \in 1..Len(s) |-> IF s[i] = "_" THEN "-" ELSE s[i]]

\* str::to_lowercase
to_lowercase(s) == [i \in 1..Len(s) |-> char_to_lowercase(s[i])]

\* char::is_numeric on the bytes the model draws from
is_numeric(ch) == ch \in Digits

\* s.chars().last()
chars_last(s) == IF s = <<>> THEN None ELSE Some(s[Len(s)])

\* Option::unwrap: the value of a Some; evaluating it on None fails, as the
\* call panics
unwrap(opt) == opt[1]

end_numeric(s) == is_numeric(unwrap(chars_last(s)))

Lib_new(library_name, sover) ==
    [library_name |-> to_lowercase(replace_underscore(library_name)), sover |-> sover]

Lib_get_lib_name(self) == self.library_name

Lib_get_sover(self) == self.sover

\* format!("{}-{}" / "{}{}", lib_name, suffix) and lib_name.to_string()
FormatLibName(lib_name, numeric, version_suffix) ==
    IF version_suffix = None THEN lib_name
    ELSE IF numeric THEN lib_name \o <<"-">> \o version_suffix[1]
    ELSE lib_name \o version_suffix[1]

\* mutant: the suffix is the last version component
Lib_get_translated_lib_name_last_component(self) ==
    FormatLibName(Lib_get_lib_name(self), end_numeric(self.library_name),
                  IF self.sover = <<>> THEN None
                  ELSE Some(ToDecimal(self.sover[Len(self.sover)])))

Lib_get_translated_lib_name(self) ==
    FormatLibName(Lib_get_lib_name(self), end_numeric(self.library_name),
                  IF self.sover = <<>> THEN None ELSE Some(ToDecimal(self.sover[1])))

\* mutant: "-dev" is appended to the translated library name
Lib_get_translated_dev_name_versioned(self) ==
    Lib_get_translated_lib_name(self) \o <<"-", "d", "e", "v">>

Lib_get_translated_dev_name(self) == Lib_get_lib_name(self) \o <<"-", "d", "e", "v">>

MetaLib_new(package_name, library_name, sover) ==
    [package_name |-> package_name, library_name |-> library_name,
     package_version |-> None, sover |-> sover]

\* mutant: the name as it was captured
MetaLib_get_lib_name_raw(self) == self.library_name

MetaLib_get_lib_name(self) == to_lowercase(replace_underscore(self.library_name))

\* str::split_once('.'): the text before the first '.', or None without one
split_once_dot(s) ==
    IF \E i \in 1..Len(s) : s[i] = "."
    THEN Some(Take(s, PrefixLen(Bytes \ {"."}, s)))
    ELSE None

MetaLib_version_suffix(self) ==
    IF self.sover = None THEN None
    ELSE IF split_once_dot(self.sover[1]) # None THEN split_once_dot(self.sover[1])
    ELSE self.sover

MetaLib_get_translated_lib_name(self) ==
    FormatLibName(MetaLib_get_lib_name(self), end_numeric(self.library_name),
                  MetaLib_version_suffix(self))

MetaLib_get_translated_dev_name(self) ==
    MetaLib_get_lib_name(self) \o <<"-", "d", "e", "v">>

MetaLib_get_sover(self) == self.sover

MetaLib_get_package_name(self) == self.package_name

(***************************************************************************)
(* CONTENTS_REGEX (metadata/contents.rs 12) and Regex::captures.  Positions *)
(* are 1-based indices into the line; `.` is any byte but the newline.     *)
(***************************************************************************)
AlnumClass == {b \in Bytes : is_alphanumeric(b)}
LibNameClass == AlnumClass \cup {"_", "-", "+"}     \* [a-zA-Z0-9_\-+]
DepClass == AlnumClass \cup {"-"}                   \* [a-zA-Z0-9\-]
RegexPrefix == <<"u", "s", "r", "/", "l", "i", "b", "/">>
RegexLib == <<"l", "i", "b">>
RegexSo == <<"s", "o">>
RegexGap == <<" ", " ", " ">>

MatchAt(line, p, t) ==
    p >= 1 /\ p + Len(t) - 1 <= Len(line) /\ SubSeq(line, p, p + Len(t) - 1) = t

AnyAt(line, p) == p >= 1 /\ p <= Len(line) /\ line[p] # "\n"

\* where (?P<dep>...) starts when "   [a-zA-Z0-9]*/" is matched at p
DepStart(line, p) == p + 3 + PrefixLen(AlnumClass, Drop(line, p + 2)) + 1

DepLen(line, p) == PrefixLen(DepClass, Drop(line, DepStart(line, p) - 1))

\* "   (?:[a-zA-Z0-9]*)/(?P<dep>[a-zA-Z0-9\-]+)" matches at p
TailAt(line, p) ==
    /\ MatchAt(line, p, RegexGap)
    /\ MatchAt(line, DepStart(line, p) - 1, PATH_SEPARATOR)
    /\ DepLen(line, p) >= 1

\* t is matched by (?:[0-9]+.?)+
InSoverLang(t) ==
    /\ t # <<>> /\ is_digit(t[1])
    /\ \A i \in 1..Len(t) : t[i] # "\n"
    /\ \A i \in 1..(Len(t) - 1) : is_digit(t[i]) \/ is_digit(t[i + 1])

\* the ends e of the texts line[s..e-1] that the repeated sover group can
\* match and after which the rest of the pattern matches
SoverEnds(line, s) ==
    { e \in (s + 1)..(Len(line) + 1) :
        InSoverLang(SubSeq(line, s, e - 1)) /\ TailAt(line, e) }

NoVersion == [ok |-> FALSE, sover |-> None, tail |-> 0]

\* "(?:.(?P<sover>(?:[0-9]+.?)+)*)?" followed by the rest of the pattern, at
\* g: the greedy alternatives in the order the matcher prefers them
VersionMatch(line, g) ==
    IF AnyAt(line, g) /\ SoverEnds(line, g + 1) # {}
    THEN The({ [ok |-> TRUE, sover |-> Some(SubSeq(line, g + 1, e - 1)), tail |-> e]
               : e \in {MaxOf(SoverEnds(line, g + 1))} })
    ELSE IF AnyAt(line, g) /\ TailAt(line, g + 1)
    THEN [ok |-> TRUE, sover |-> None, tail |-> g + 1]
    ELSE IF TailAt(line, g) THEN [ok |-> TRUE, sover |-> None, tail |-> g]
    ELSE NoVersion

\* the lengths k of the [a-zA-Z0-9_\-+]+ part of a name starting at n for
\* which the pattern goes on to match
NameLens(line, n) ==
    { k \in 1..PrefixLen(LibNameClass, Drop(line, n + 2)) :
        /\ AnyAt(line, n + 3 + k)
        /\ MatchAt(line, n + 4 + k, RegexSo)
        /\ VersionMatch(line, n + 6 + k).ok }

\* the places of "usr/lib/" from which the pattern matches
MatchStarts(line) ==
    { u \in 1..Len(line) :
        /\ MatchAt(line, u, RegexPrefix)
        /\ MatchAt(line, u + 8, RegexLib)
        /\ NameLens(line, u + 8) # {} }

CapturesAt(line, n, k) ==
    The({ [name |-> SubSeq(line, n, n + 2 + k),
           sover |-> v.sover,
           dep |-> SubSeq(line, DepStart(line, v.tail),
                          DepStart(line, v.tail) + DepLen(line, v.tail) - 1)]
          : v \in {VersionMatch(line, n + 6 + k)} })

\* CONTENTS_REGEX.captures(&line): the leftmost match, the name as long as
\* it can be
CONTENTS_REGEX_captures(line) ==
    IF MatchStarts(line) = {} THEN None
    ELSE The({ Some(CapturesAt(line, u + 8, MaxOf(NameLens(line, u + 8))))
               : u \in {MinOf(MatchStarts(line))} })

(***************************************************************************)
(* ContentsParser::parse_async (metadata/contents.rs 102-158)              *)
(***************************************************************************)
UsrLib == <<"u", "s", "r", "/", "l", "i", "b">>

\* str::matches('.').count()
matches_dot_count(s) == Cardinality({i \in 1..Len(s) : s[i] = "."})

\* a literal Regex: is_match is the search for the literal
Regex_is_match(regex, text) == Contains(text, regex)

EmptyMap == [k \in {} |-> None]

\* mutant: the Lib is stored with ".0" added to its version
HashMap_insert_padded(map, key, value) ==
    [k \in DOMAIN map \cup {key} |->
        IF k # key THEN map[k]
        ELSE IF value.sover = None THEN value
        ELSE [value EXCEPT !.sover = Some(@[1] \o <<".", "0">>)]]

HashMap_insert(map, key, value) ==
    [k \in DOMAIN map \cup {key} |-> IF k = key THEN value ELSE map[k]]

HashMap_remove(map, key) == [k \in DOMAIN map \ {key} |-> map[k]]

\* lines 119-131: the Lib of a line, or None when the line is skipped
ObservedLib(line) ==
    IF ~Contains(line, UsrLib) THEN None
    ELSE The({ IF captures = None THEN None
               ELSE Some(MetaLib_new(captures[1].dep, captures[1].name, captures[1].sover))
               : captures \in {CONTENTS_REGEX_captures(line)} })

\* lines 133-147: the map after the comparison with the record at lib_name
RemoveLessSpecific(map, lib_name, sover) ==
    IF lib_name \notin DOMAIN map THEN map
    ELSE The({ IF prev_sover # None /\ sover # None
               THEN (IF matches_dot_count(prev_sover[1]) < matches_dot_count(sover[1])
                     THEN HashMap_remove(map, lib_name) ELSE map)
               ELSE IF prev_sover = None /\ sover # None
               THEN HashMap_remove(map, lib_name)
               ELSE map
               : prev_sover \in {MetaLib_get_sover(map[lib_name])} })

\* lines 148-155
FilterAccepts(regexOpt, lib) ==
    \/ regexOpt = None
    \/ /\ regexOpt # None
       /\ \/ Regex_is_match(regexOpt[1], MetaLib_get_translated_lib_name(lib))
          \/ Regex_is_match(regexOpt[1], MetaLib_get_translated_dev_name(lib))
          \/ Regex_is_match(regexOpt[1], MetaLib_get_lib_name(lib))

InsertFiltered(map, regexOpt, lib) ==
    IF FilterAccepts(regexOpt, lib)
    THEN HashMap_insert(map, MetaLib_get_lib_name(lib), lib)
    ELSE map

\* lines 131-155: the map after one observation
Reduce(map, regexOpt, lib) ==
    InsertFiltered(RemoveLessSpecific(map, MetaLib_get_lib_name(lib), MetaLib_get_sover(lib)),
                   regexOpt, lib)

\* lines 116-155: the map after the turn of the loop on line_buf
LoopTurn(map, regexOpt, line_buf) ==
    IF ObservedLib(line_buf) = None THEN map
    ELSE Reduce(map, regexOpt, ObservedLib(line_buf)[1])

(***************************************************************************)
(* State                                                                   *)
(***************************************************************************)
VARIABLES
    \* one iterator instance (generate_iterator!)
    reader,     \* the bytes the BufReader has not handed out yet
    filter,     \* the injected Filter: "AcceptAll" or "Pattern"
    func,       \* the parser of the instance: "take_line" or "take_line_so"
    last,       \* what the last call of next() did: "new", "some", "none", "panic"
    yielded,    \* the entries returned so far, in order
    origin,     \* history: the line each yielded entry was parsed from
    consumed,   \* history: the lines read_until has handed out so far
    ioErrors,   \* the number of read errors the source has raised
    \* one call of a grammar function
    ginput,     \* the argument and how it was built
    gresult,    \* the value returned
    gpc,        \* "start" before the call, "done" after it
    \* one library value and a call of one of its getters
    tinput,     \* the arguments of Lib::new and the struct they are for
    tlib,       \* the Lib built, None before Lib::new
    tout,       \* the getter called and what it returned, None before it
    \* one call of ContentsParser::parse_async
    rsource,    \* the bytes the reader has not handed out yet
    rfilter,    \* self.filter: None or Some(literal regex)
    ret,        \* the HashMap from normalized library name to Lib
    hasher,     \* the bytes the hasher has been updated with
    rpc,        \* "reading" inside the loop, "returned" after it
    robs,       \* history: the Libs built from the lines read so far
    \* two iterator instances, each with its own source
    iters       \* instance |-> [source, reader, filter, func, last, yielded]

iterVars == <<reader, filter, func, last, yielded, origin, consumed, ioErrors>>
gramVars == <<ginput, gresult, gpc>>
transVars == <<tinput, tlib, tout>>
reduceVars == <<rsource, rfilter, ret, hasher, rpc, robs>>
pairVars == <<iters>>
vars == <<iterVars, gramVars, transVars, reduceVars, pairVars>>

\* the parts of the state a specification does not use
IterIdle ==
    /\ reader = <<>> /\ filter = "AcceptAll" /\ func = "take_line" /\ last = "new"
    /\ yielded = <<>> /\ origin = <<>> /\ consumed = <<>> /\ ioErrors = 0
GramIdle == ginput = [fn |-> "none"] /\ gresult = <<>> /\ gpc = "idle"
TransIdle == tinput = [kind |-> "none"] /\ tlib = None /\ tout = None
ReduceIdle ==
    /\ rsource = <<>> /\ rfilter = None /\ ret = EmptyMap /\ hasher = <<>>
    /\ rpc = "idle" /\ robs = <<>>

PairIdle == iters = <<>>

(***************************************************************************)
(* The iterator: Init is ContentsIterator::new / ContentsSharedLibrary-    *)
(* Iterator::new over a source of at most MaxLines lines                   *)
(***************************************************************************)
MaxLines == 3
MaxIoErrors == 1

IterLines ==
    { <<"b", " ", "s", "/", "p", "\n">>,
      <<"u", "/", "l", ".", "s", "o", ".", "1", " ", " ", "a", "/", "n", "\n">>,
      <<"a", "b", "\n">>,
      <<"\n">>,
      <<"b", " ", "a", "/", "b", "/", "c", "/", "n", "\n">>,
      <<"b", " ", " ", "\n">>,
      <<"l", ".", "s", "o", "\t", "x">> }

Init ==
    /\ \E ls \in SeqsUpTo(IterLines, MaxLines) : reader = Flatten(ls)
    /\ filter \in {"AcceptAll", "Pattern"}
    /\ func \in {"take_line", "take_line_so"}
    /\ last = "new"
    /\ yielded = <<>> /\ origin = <<>> /\ consumed = <<>> /\ ioErrors = 0
    /\ GramIdle /\ TransIdle /\ ReduceIdle /\ PairIdle

\* mutant: the reader is left where it was before the call
IterReturn_rewind(r) ==
    /\ reader' = reader
    /\ last' = r.ret
    /\ yielded' = yielded \o r.entry
    /\ origin' = IF r.ret = "some" THEN Append(origin, r.read[Len(r.read)]) ELSE origin
    /\ consumed' = consumed \o r.read
    /\ UNCHANGED <<filter, func, gramVars, transVars, reduceVars, pairVars>>

\* the state change of one call of next() whose loop ended as r
IterReturn(r) ==
    /\ reader' = r.reader
    /\ last' = r.ret
    /\ yielded' = yielded \o r.entry
    /\ origin' = IF r.ret = "some" THEN Append(origin, r.read[Len(r.read)]) ELSE origin
    /\ consumed' = consumed \o r.read
    /\ UNCHANGED <<filter, func, gramVars, transVars, reduceVars, pairVars>>

\* next() with every read succeeding
IterNext ==
    /\ last # "panic"
    /\ IterReturn(NextLoop(func, filter, reader, -1, <<>>))
    /\ UNCHANGED ioErrors

\* next() in which the read after k successful ones returns an error
IterNextIoError ==
    /\ last # "panic"
    /\ ioErrors < MaxIoErrors
    /\ \E k \in 0..MaxLines :
         LET r == NextLoop(func, filter, reader, k, <<>>)
         IN r.ioerr /\ IterReturn(r)
    /\ ioErrors' = ioErrors + 1

Next == IterNext \/ IterNextIoError

Spec == Init /\ [][Next]_vars

(***************************************************************************)
(* The grammar functions, each called once on an argument built from       *)
(* bounded parts: SpecGrammar                                              *)
(***************************************************************************)
MaxQuals == 3        \* qualifiers written before a package name
MaxFileChunks == 4   \* chunks a terminal is written from
MaxSegs == 2         \* directory segments of a path
MaxSover == 2        \* version components of a shared library

QualSet == {<<"a">>, <<"n", "-", "F">>, <<"x", "1">>}
PkgNameSet == {<<"z", "s", "h">>, <<"c", "+", "+">>}
PkgTails == {<<>>, <<"\n">>, <<",", "b">>}
WsRuns == {<<" ">>, <<"\t">>, <<" ", "\t", " ">>}
FileChunks == {<<"l", "_", "+">>, <<".", "s", "o">>, <<".", "1">>, <<".", "0", "7">>,
               <<"2">>, <<".", "x">>}
SegSet == {<<".">>, <<"u", "s", "r">>, <<"l", ".", "s", "o">>, <<>>}
VerSet == {0, 7, 10}
SoNames == {<<"l", "_", "+", "2">>, <<"l", ".", "x">>}
NormalNames == {<<"b", "a", "s", "h">>, <<"l", ".", "s", "o", ".", "x">>,
                <<"l", ".", "s", "o", ".", "1">>}
LineTerminals == {File_so(<<"l", "i", "b">>, <<>>), File_so(<<"l", "i", "b">>, <<7, 10>>),
                  File_normal(<<"b", "a", "s", "h">>),
                  File_normal(<<"l", ".", "s", "o", ".", "x">>)}
PathWs == {<<" ">>, <<"\t">>}
LineWs == {<<" ">>, <<" ", " ", " ">>, <<"\t">>, <<" ", "\t">>}

\* q1/q2/../name
RECURSIVE PackageText(_, _)
PackageText(quals, name) ==
    IF quals = <<>> THEN name
    ELSE Head(quals) \o <<"/">> \o PackageText(Tail(quals), name)

PackageInputs ==
    { [fn |-> "take_package", quals |-> q, name |-> n,
       text |-> PackageText(q, n) \o t] :
      q \in SeqsUpTo(QualSet, MaxQuals), n \in PkgNameSet, t \in PkgTails }

FileInputs ==
    { [fn |-> "take_file", term |-> Flatten(cs), text |-> Flatten(cs) \o w] :
      cs \in SeqsUpTo(FileChunks, MaxFileChunks), w \in WsRuns }

PathTerminals ==
    { [tag |-> "SharedLibrary", name |-> n, sover |-> v] :
      n \in SoNames, v \in SeqsUpTo(VerSet, MaxSover) }
    \cup { [tag |-> "Normal", name |-> n, sover |-> <<>>] : n \in NormalNames }

\* a ContentsPath value whose parent was built from the segments, rendered
\* with Display and followed by whitespace
PathInputs ==
    { [fn |-> "take_path", segs |-> sg,
       path |-> ContentsPath_new(JoinWith(sg, <<"/">>), t),
       rendered |-> ContentsPath_to_string(ContentsPath_new(JoinWith(sg, <<"/">>), t)),
       text |-> ContentsPath_to_string(ContentsPath_new(JoinWith(sg, <<"/">>), t)) \o w] :
      sg \in SeqsUpTo(SegSet, MaxSegs), t \in PathTerminals, w \in PathWs }

\* <path><whitespace><section>/<name>\n
LineInputs ==
    { [fn |-> "take_line", segs |-> sg, term |-> t, section |-> q, name |-> n,
       text |-> ContentsPath_to_string(ContentsPath_new(JoinWith(sg, <<"/">>), t))
                \o w \o q \o <<"/">> \o n \o <<"\n">>] :
      sg \in SeqsUpTo(SegSet, MaxSegs), t \in LineTerminals, w \in LineWs,
      q \in QualSet, n \in PkgNameSet }

MaxRun == 5          \* digits of a version component
RunDigits == {"0", "7", "9"}
SoverTails == {<<" ">>, <<".", "1", " ">>}

\* a '.', a run of digits and what follows it
SoverInputs ==
    { [fn |-> "sover_segment", run |-> r, tail |-> t, text |-> SOVER_SEPARATOR \o r \o t] :
      r \in SeqsUpTo(RunDigits, MaxRun) \ {<<>>}, t \in SoverTails }

MaxRefs == 3         \* package references of a list
RefSet == { [quals |-> <<>>, name |-> <<"z", "s", "h">>],
            [quals |-> << <<"s">> >>, name |-> <<"p">>],
            [quals |-> << <<"n", "-", "f">>, <<"x", "1">> >>, name |-> <<"c", "+", "+">>] }
ListWs == {<<>>, <<" ">>, <<"\t", " ">>}
ListTails == {<<>>, <<"\n">>, <<",", "\n">>}

\* whitespace, references joined by ',', and what follows the list
ListInputs ==
    { [fn |-> "take_packages", refs |-> rs, tail |-> t,
       text |-> w \o JoinWith([i \in 1..Len(rs) |-> PackageText(rs[i].quals, rs[i].name)],
                              LIST_SEPARATOR) \o t] :
      rs \in SeqsUpTo(RefSet, MaxRefs), w \in ListWs, t \in ListTails }

MaxMultiLines == 2   \* lines handed to parse_multiple_line
\* well-formed lines, without their newline
MultiLineSet ==
    { <<"b", " ", "s", "/", "p">>,
      <<"u", "/", "l", ".", "s", "o", ".", "1", " ", " ", "a", "/", "n">>,
      <<"u", "s", "r", "/", "x", "\t", "z", "s", "h", ",", "s", "/", "p">> }

\* lines separated by newlines, with or without a final newline
MultiLineInputs ==
    { [fn |-> "parse_multiple_line", lines |-> ls, final |-> f,
       text |-> JoinWith(ls, NEWLINE) \o (IF f /\ ls # <<>> THEN NEWLINE ELSE <<>>)] :
      ls \in SeqsUpTo(MultiLineSet, MaxMultiLines), f \in BOOLEAN }

InitGrammar ==
    /\ ginput \in PackageInputs \cup FileInputs \cup PathInputs \cup LineInputs
                 \cup SoverInputs \cup ListInputs \cup MultiLineInputs
    /\ gresult = <<>>
    /\ gpc = "start"
    /\ IterIdle /\ TransIdle /\ ReduceIdle /\ PairIdle

Call(fn, result) ==
    /\ gpc = "start"
    /\ ginput.fn = fn
    /\ gresult' = result
    /\ gpc' = "done"
    /\ UNCHANGED <<ginput, iterVars, transVars, reduceVars, pairVars>>

CallTakePackage == Call("take_package", take_package(ginput.text))
CallTakeFile == Call("take_file", take_file(ginput.text))
CallTakePath == Call("take_path", take_path(ginput.text))
CallTakeLine == Call("take_line", take_line(ginput.text))

CallTakePackages == Call("take_packages", take_packages(ginput.text))

CallParseMultipleLine == Call("parse_multiple_line", parse_multiple_line(ginput.text))

\* the fold of sover_segment wraps or panics on overflow, as the profile of
\* the build has it
CallSoverSegment ==
    \E overflow_checks \in BOOLEAN :
        Call("sover_segment", IF overflow_checks
                              THEN sover_segment_overflow_checks(ginput.text)
                              ELSE sover_segment(ginput.text))

NextGrammar ==
    \/ CallTakePackage
    \/ CallTakeFile
    \/ CallTakePath
    \/ CallTakeLine
    \/ CallSoverSegment
    \/ CallTakePackages
    \/ CallParseMultipleLine

SpecGrammar == InitGrammar /\ [][NextGrammar]_vars

(***************************************************************************)
(* The library values, each built once and asked once: SpecTranslate       *)
(***************************************************************************)
LibNames ==
    { <<"l", "i", "b", "n", "s", "s", "3">>,
      <<"l", "i", "b", "a", "d", "w", "a", "i", "t", "a", "q", "t">>,
      <<"l", "i", "b", "_", "F", "o", "o">>,
      <<"l", "i", "b", "i", "s", "o", "9", "6", "6", "0", "+", "+">>,
      <<"l", "i", "b", "X", "1", "1">> }

\* the version as the metadata Lib holds it: the components joined by '.'
SoverText(sover) ==
    IF sover = <<>> THEN None
    ELSE Some(JoinWith([i \in 1..Len(sover) |-> ToDecimal(sover[i])], SOVER_SEPARATOR))

LibInputs ==
    { [kind |-> k, name |-> n, sover |-> v] :
      k \in {"translate", "metadata"}, n \in LibNames, v \in SeqsUpTo(VerSet, MaxSover) }

\* names the soname grammar admits (is_soname: alphanumeric, '+', '-', '_')
TwinNames ==
    { <<"l", "i", "b", "x">>, <<"l", "i", "b", "x", "1">>,
      <<"l", "i", "b", "x", "1", "_">>, <<"l", "i", "b", "X", "1", "0">> }

\* two libraries, each with a name and a non-empty version sequence
TwinInputs ==
    { [kind |-> "twins", name |-> n, sover |-> v, name2 |-> n2, sover2 |-> v2] :
      n \in TwinNames, n2 \in TwinNames,
      v \in SeqsUpTo(VerSet, MaxSover) \ {<<>>}, v2 \in SeqsUpTo(VerSet, MaxSover) \ {<<>>} }

InitTranslate ==
    /\ tinput \in LibInputs \cup TwinInputs
    /\ tlib = None
    /\ tout = None
    /\ IterIdle /\ GramIdle /\ ReduceIdle /\ PairIdle

Build(kind, lib) ==
    /\ tinput.kind = kind
    /\ tlib = None
    /\ tlib' = Some(lib)
    /\ UNCHANGED <<tinput, tout, iterVars, gramVars, reduceVars, pairVars>>

Get(kind, fn, val) ==
    /\ tinput.kind = kind
    /\ tlib # None
    /\ tout = None
    /\ tout' = Some([fn |-> fn, val |-> val])
    /\ UNCHANGED <<tinput, tlib, iterVars, gramVars, reduceVars, pairVars>>

LibNew == Build("translate", Lib_new(tinput.name, tinput.sover))
LibGetLibName == Get("translate", "get_lib_name", Lib_get_lib_name(tlib[1]))
LibGetTranslatedLibName ==
    Get("translate", "get_translated_lib_name", Lib_get_translated_lib_name(tlib[1]))
LibGetTranslatedDevName ==
    Get("translate", "get_translated_dev_name", Lib_get_translated_dev_name(tlib[1]))

\* two Lib values side by side, each asked for its translated name
TwinsNew ==
    Build("twins", <<Lib_new(tinput.name, tinput.sover), Lib_new(tinput.name2, tinput.sover2)>>)
TwinsGetTranslatedLibName ==
    Get("twins", "get_translated_lib_name",
        <<Lib_get_translated_lib_name(tlib[1][1]), Lib_get_translated_lib_name(tlib[1][2])>>)

MetaLibNew ==
    Build("metadata", MetaLib_new(<<"p">>, tinput.name, SoverText(tinput.sover)))
MetaLibGetLibName == Get("metadata", "get_lib_name", MetaLib_get_lib_name(tlib[1]))
MetaLibGetTranslatedLibName ==
    Get("metadata", "get_translated_lib_name", MetaLib_get_translated_lib_name(tlib[1]))
MetaLibGetTranslatedDevName ==
    Get("metadata", "get_translated_dev_name", MetaLib_get_translated_dev_name(tlib[1]))

NextTranslate ==
    \/ LibNew \/ LibGetLibName \/ LibGetTranslatedLibName \/ LibGetTranslatedDevName
    \/ MetaLibNew \/ MetaLibGetLibName \/ MetaLibGetTranslatedLibName
    \/ MetaLibGetTranslatedDevName
    \/ TwinsNew \/ TwinsGetTranslatedLibName

SpecTranslate == InitTranslate /\ [][NextTranslate]_vars

(***************************************************************************)
(* parse_async over a source of at most MaxObs lines: SpecReduce           *)
(***************************************************************************)
MaxObs == 2

\* the path and the package of each line
ReduceEntries ==
    { <<<<"u", "s", "r", "/", "l", "i", "b", "/", "l", "i", "b", "a", ".", "s", "o", ".", "1">>,
        <<"s", "/", "p">>>>,
      <<<<"u", "s", "r", "/", "l", "i", "b", "/", "l", "i", "b", "a", ".", "s", "o", ".", "1", ".", "2">>,
        <<"s", "/", "q">>>>,
      <<<<"u", "s", "r", "/", "l", "i", "b", "/", "l", "i", "b", "a", ".", "s", "o">>,
        <<"s", "/", "r">>>>,
      <<<<"u", "s", "r", "/", "l", "i", "b", "/", "l", "i", "b", "a", ".", "s", "o", ".", "2">>,
        <<"s", "/", "t">>>>,
      <<<<".", "/", "u", "s", "r", "/", "l", "i", "b", "/", "l", "i", "b", "-", "B", ".", "s", "o", ".", "3", ".", "4", ".", "5">>,
        <<"s", "/", "u">>>>,
      <<<<"u", "s", "r", "/", "l", "i", "b", "/", "l", "i", "b", "_", "b", ".", "s", "o", ".", "1">>,
        <<"s", "/", "p">>>>,
      <<<<"u", "s", "r", "/", "l", "i", "b", "/", "l", "i", "b", "c", "+", ".", "s", "o", ".", "6">>,
        <<"s", "/", "c">>>>,
      <<<<"u", "s", "r", "/", "b", "i", "n", "/", "l", "i", "b", "a", ".", "s", "o", ".", "9">>,
        <<"s", "/", "p">>>>,
      <<<<"u", "s", "r", "/", "l", "i", "b", "/", "x", "/", "l", "i", "b", "a", ".", "s", "o", ".", "9">>,
        <<"s", "/", "p">>>> }

\* <path>   <package>\n
ReduceLines == { e[1] \o RegexGap \o e[2] \o NEWLINE : e \in ReduceEntries }

ReduceFilters == {None, Some(<<"a", "1">>)}

InitReduce ==
    /\ \E ls \in SeqsUpTo(ReduceLines, MaxObs) : rsource = Flatten(ls)
    /\ rfilter \in ReduceFilters
    /\ ret = EmptyMap
    /\ hasher = <<>>
    /\ rpc = "reading"
    /\ robs = <<>>
    /\ IterIdle /\ GramIdle /\ TransIdle /\ PairIdle

\* mutant: hasher.update placed after the usr/lib test
ReduceBody_hash_after_continue(line_buf) ==
    /\ hasher' = (IF Contains(line_buf, UsrLib) THEN hasher \o line_buf ELSE hasher)
    /\ ret' = LoopTurn(ret, rfilter, line_buf)
    /\ robs' = robs \o ObservedLib(line_buf)

\* one turn of the loop on the line read_until handed out
ReduceBody(line_buf) ==
    /\ hasher' = hasher \o line_buf
    /\ ret' = LoopTurn(ret, rfilter, line_buf)
    /\ robs' = robs \o ObservedLib(line_buf)

\* read_until returns Ok(n), n > 0
ReduceLine ==
    /\ rpc = "reading"
    /\ rsource # <<>>
    /\ rsource' = read_until(rsource).rest
    /\ ReduceBody(read_until(rsource).buf)
    /\ UNCHANGED <<rfilter, rpc, iterVars, gramVars, transVars, pairVars>>

\* read_until returns Ok(0): break, ret.into_values().collect()
ReduceEof ==
    /\ rpc = "reading"
    /\ rsource = <<>>
    /\ rpc' = "returned"
    /\ UNCHANGED <<rsource, rfilter, ret, hasher, robs, iterVars, gramVars, transVars, pairVars>>

\* read_until returns Err: break, ret.into_values().collect()
ReduceIoError ==
    /\ rpc = "reading"
    /\ rsource # <<>>
    /\ rpc' = "returned"
    /\ UNCHANGED <<rsource, rfilter, ret, hasher, robs, iterVars, gramVars, transVars, pairVars>>

NextReduce == ReduceLine \/ ReduceEof \/ ReduceIoError

SpecReduce == InitReduce /\ [][NextReduce]_vars

(***************************************************************************)
(* The two readers of a byte source, the iterators and parse_async, each   *)
(* over its own source: SpecIo                                             *)
(***************************************************************************)
MaxIoLines == 2

\* an iterator over a source of at most MaxIoLines lines
InitIoIter ==
    /\ \E ls \in SeqsUpTo(IterLines, MaxIoLines) : reader = Flatten(ls)
    /\ filter \in {"AcceptAll", "Pattern"}
    /\ func \in {"take_line", "take_line_so"}
    /\ last = "new"
    /\ yielded = <<>> /\ origin = <<>> /\ consumed = <<>> /\ ioErrors = 0
    /\ GramIdle /\ TransIdle /\ ReduceIdle /\ PairIdle

InitIo == InitIoIter \/ InitReduce

\* the iterator steps where there is an iterator, parse_async where it runs
NextIo ==
    \/ rpc = "idle" /\ IterNext
    \/ rpc = "idle" /\ IterNextIoError
    \/ NextReduce

SpecIo == InitIo /\ [][NextIo]_vars

(***************************************************************************)
(* Two iterator instances, a ContentsIterator and a ContentsSharedLibrary- *)
(* Iterator, each over its own source, their calls of next() interleaved:  *)
(* SpecPair                                                                *)
(***************************************************************************)
MaxPairLines == 2

PairLines ==
    { <<"b", " ", "s", "/", "p", "\n">>,
      <<"u", "/", "l", ".", "s", "o", ".", "1", " ", " ", "a", "/", "n", "\n">>,
      <<"a", "b", "\n">> }

\* $name::new(read, filter)
Instance_new(fn, source, f) ==
    [source |-> source, reader |-> source, filter |-> f, func |-> fn,
     last |-> "new", yielded |-> <<>>]

\* next(&mut self): the instance after the call
Instance_next(self) ==
    The({ [self EXCEPT !.reader = r.reader, !.last = r.ret, !.yielded = @ \o r.entry]
          : r \in {NextLoop(self.func, self.filter, self.reader, -1, <<>>)} })

\* mutant: the instances read through one shared reader
PairAfterNext_shared_reader(its, i) ==
    [j \in DOMAIN its |->
        IF j = i THEN Instance_next(its[i])
        ELSE [its[j] EXCEPT !.reader = Instance_next(its[i]).reader]]

\* the instances after instance i has run next()
PairAfterNext(its, i) == [its EXCEPT ![i] = Instance_next(its[i])]

InitPair ==
    /\ \E l1, l2 \in SeqsUpTo(PairLines, MaxPairLines) :
       \E f1, f2 \in {"AcceptAll", "Pattern"} :
          iters = << Instance_new("take_line", Flatten(l1), f1),
                     Instance_new("take_line_so", Flatten(l2), f2) >>
    /\ IterIdle /\ GramIdle /\ TransIdle /\ ReduceIdle

PairNext(i) ==
    /\ iters[i].last # "panic"
    /\ iters' = PairAfterNext(iters, i)
    /\ UNCHANGED <<iterVars, gramVars, transVars, reduceVars>>

PairNextFirst == PairNext(1)
PairNextSecond == PairNext(2)

NextPair == PairNextFirst \/ PairNextSecond

SpecPair == InitPair /\ [][NextPair]_vars

(***************************************************************************)
(* Claims about the iterators, checked under Spec                          *)
(***************************************************************************)
HasSpace(line) == \E i \in 1..Len(line) : is_space(line[i])

\* one entry for each of the lines that the filter accepts and the grammar
\* parses, in the order of the lines
RECURSIVE ExpectedYield(_, _, _)
ExpectedYield(fn, f, lines) ==
    IF lines = <<>> THEN <<>>
    ELSE (IF filter_bytes(f, Head(lines)) /\ IterFunc(fn, Head(lines)).kind = "ok"
          THEN IterFunc(fn, Head(lines)).val ELSE <<>>)
         \o ExpectedYield(fn, f, Tail(lines))

\* the package list of a line: the bytes after its last space byte
PackageList(line) == Drop(line, LastSpace(line) + 1)

\* some reference of the package list holds three '/' (no ',' between them)
MoreThanTwoQualifiers(line) ==
    /\ HasSpace(line)
    /\ \E i, k \in 1..Len(PackageList(line)) :
         /\ i < k
         /\ Cardinality({j \in i..k : PackageList(line)[j] = "/"}) >= 3
         /\ \A j \in i..k : PackageList(line)[j] # ","

(* C1: a line that holds no space or tab byte (a line that is only a       *)
(* newline included) is skipped: next() does not abort on it, no entry is  *)
(* produced from it, and the entries yielded are exactly those of the      *)
(* lines read that the filter accepts and the grammar parses.              *)
C1_NoWhitespaceLineSkipped ==
    /\ last # "panic"
    /\ \A i \in 1..Len(origin) : HasSpace(origin[i])
    /\ yielded = ExpectedYield(func, filter, consumed)

(* C4: a line whose package reference carries more than two qualifier      *)
(* segments yields no entry.                                               *)
C4_ManyQualifiersSkipped ==
    \A i \in 1..Len(origin) : ~MoreThanTwoQualifiers(origin[i])

(* C11: Exhausted is terminal: once next() has returned None, every later   *)
(* call of next() returns None too and yields no further entry.            *)
C11_ExhaustedTerminal ==
    [][last = "none" => (last' = "none" /\ yielded' = yielded)]_vars

\* every line the filter accepts holds a space or tab byte
AcceptedHaveSpace(f, lines) ==
    \A i \in 1..Len(lines) : filter_bytes(f, lines[i]) => HasSpace(lines[i])

\* the lines read so far, followed by the bytes not read yet, are the source:
\* a call of next() takes its lines off the front of what is left, once
ReadsInOrder ==
    /\ Len(consumed') >= Len(consumed)
    /\ SubSeq(consumed', 1, Len(consumed)) = consumed
    /\ Flatten(consumed') \o reader' = Flatten(consumed) \o reader

(* C13: when every line handed to the grammar holds whitespace, the entries *)
(* ContentsIterator has yielded are, in the order of the lines, one entry   *)
(* for each line read that the filter accepts and the grammar parses; a     *)
(* rejected line does not reach the grammar, and no line is read twice.     *)
C13_InOrderOncePerLine ==
    [][(func = "take_line" /\ AcceptedHaveSpace(filter, consumed')) =>
          /\ last' # "panic"
          /\ yielded' = ExpectedYield(func, filter, consumed')
          /\ Len(origin') = Len(yielded')
          /\ ReadsInOrder]_vars

C13_Witness ==
    /\ func = "take_line" /\ filter = "Pattern"
    /\ consumed = << <<"a", "b", "\n">>,
                     <<"u", "/", "l", ".", "s", "o", ".", "1", " ", " ", "a", "/", "n", "\n">>,
                     <<"b", " ", "s", "/", "p", "\n">> >>
    /\ Len(yielded) = 1
    /\ reader = <<>> /\ last = "none"

(***************************************************************************)
(* Claims about two instances, checked under SpecPair                      *)
(***************************************************************************)
\* the entries an iterator yields when next() is called on it alone until it
\* returns None or aborts
RECURSIVE AloneYield(_, _, _)
AloneYield(fn, f, source) ==
    The({ IF r.ret = "some" THEN r.entry \o AloneYield(fn, f, r.reader) ELSE <<>>
          : r \in {NextLoop(fn, f, source, -1, <<>>)} })

IsPrefix(s, t) == Len(s) <= Len(t) /\ SubSeq(t, 1, Len(s)) = s

(* C17: under every interleaving of the calls of next() of two instances,  *)
(* each instance has yielded a prefix of what it yields when run alone,    *)
(* and all of it once it has returned None.                                *)
C17_InstancesIndependent ==
    \A i \in DOMAIN iters :
        /\ IsPrefix(iters[i].yielded,
                    AloneYield(iters[i].func, iters[i].filter, iters[i].source))
        /\ iters[i].last \in {"none", "panic"} =>
              iters[i].yielded = AloneYield(iters[i].func, iters[i].filter, iters[i].source)

C17_Witness ==
    /\ iters # <<>>
    /\ iters[1].last = "some" /\ Len(iters[1].yielded) = 1 /\ iters[1].reader # <<>>
    /\ iters[2].last = "none" /\ Len(iters[2].yielded) = 2

(***************************************************************************)
(* The two entry points compared, checked under Spec                       *)
(***************************************************************************)
\* the entries whose terminal is a shared library, in their order
SharedLibraryOnly(entries) ==
    IF entries = <<>> THEN <<>>
    ELSE SelectSeq(entries, LAMBDA entry : entry.path.file.tag = "SharedLibrary")

(* C19: what ContentsSharedLibraryIterator has yielded is the subsequence   *)
(* of the entries with a SharedLibrary terminal of what ContentsIterator   *)
(* yields over the same bytes with the same filter, each entry with the    *)
(* same parent, name, version sequence and packages; it yields no entry    *)
(* with a Normal terminal.                                                 *)
C19_SharedLibrarySubsequence ==
    func = "take_line_so" =>
        /\ yielded = SharedLibraryOnly(AloneYield("take_line", filter, Flatten(consumed)))
        /\ \A i \in 1..Len(yielded) : yielded[i].path.file.tag # "Normal"

C19_Witness ==
    /\ func = "take_line_so" /\ filter = "AcceptAll"
    /\ consumed = << <<"b", " ", "s", "/", "p", "\n">>,
                     <<"u", "/", "l", ".", "s", "o", ".", "1", " ", " ", "a", "/", "n", "\n">>,
                     <<"b", " ", " ", "\n">> >>
    /\ Len(yielded) = 1 /\ yielded[1].path.file.sover = <<1>>
    /\ last = "none"

(***************************************************************************)
(* Claims about read errors, checked under SpecIo                          *)
(***************************************************************************)
\* the map parse_async builds from a source read to its clean end
RECURSIVE ParsedFrom(_, _, _)
ParsedFrom(map, regexOpt, source) ==
    IF source = <<>> THEN map
    ELSE ParsedFrom(LoopTurn(map, regexOpt, read_until(source).buf), regexOpt,
                    read_until(source).rest)

\* the lines the step of next() read
LinesOfStep == SubSeq(consumed', Len(consumed) + 1, Len(consumed'))

\* a call of next() during which the source raised an error
IterIoErrorStep == ioErrors' # ioErrors

\* a turn of the loop of parse_async in which read_until returned an error
ReduceIoErrorStep == rpc = "reading" /\ rpc' = "returned" /\ rsource # <<>>

\* next() returned None, as it does on a source that ends after the lines it
\* read, and the entries yielded before are as they were
IterEndsLikeEof ==
    /\ last' = "none"
    /\ yielded' = yielded /\ origin' = origin
    /\ NextLoop(func, filter, Flatten(LinesOfStep), -1, <<>>).ret = "none"

\* parse_async returned the map reduced so far, which is the map of a source
\* that ends after the lines read
ReduceEndsLikeEof ==
    /\ ret' = ret /\ hasher' = hasher
    /\ ret' = ParsedFrom(EmptyMap, rfilter, hasher')

(* C12: a read error is handled like the end of the input.  next() returns *)
(* None, as it does on a source that ends after the lines it read, and the *)
(* entries yielded before stay as they were; parse_async returns the map   *)
(* reduced from the lines read so far, the map of a source that ends       *)
(* there.  Neither raises the error.                                       *)
C12_IoErrorLikeEof ==
    [][(IterIoErrorStep => IterEndsLikeEof) /\ (ReduceIoErrorStep => ReduceEndsLikeEof)]_vars

C12_Witness ==
    /\ ioErrors = 1 /\ last = "none"
    /\ yielded # <<>> /\ reader # <<>>

(***************************************************************************)
(* Claims about the grammar, checked under SpecGrammar                     *)
(***************************************************************************)
Called(fn) == gpc = "done" /\ ginput.fn = fn

AreaOnlyWithSection(package) == package.area # None => package.section # None

(* C5: take_package maps zero qualifiers to no area and no section, one    *)
(* qualifier to the section alone, two qualifiers to area = first and      *)
(* section = second; in every package of every parsed line the area is     *)
(* present only if the section is.                                         *)
C5_QualifierMapping ==
    /\ (Called("take_package") /\ Len(ginput.quals) <= 2) =>
          /\ gresult.ok
          /\ gresult.val.name = ginput.name
          /\ gresult.val.area =
                IF Len(ginput.quals) = 2 THEN Some(ginput.quals[1]) ELSE None
          /\ gresult.val.section =
                IF Len(ginput.quals) = 0 THEN None
                ELSE Some(ginput.quals[Len(ginput.quals)])
    /\ (Called("take_package") /\ gresult.ok) => AreaOnlyWithSection(gresult.val)
    /\ (Called("take_line") /\ gresult.kind = "ok") =>
          \A i \in 1..Len(gresult.val[1].packages) :
              AreaOnlyWithSection(gresult.val[1].packages[i])

C5_Witness ==
    /\ Called("take_package")
    /\ Len(ginput.quals) = 1
    /\ gresult.ok
    /\ gresult.val.area = None
    /\ gresult.val.section = Some(ginput.quals[1])

\* the text reads (.<digits>)*
IsVersionText(v) ==
    /\ \A i \in 1..Len(v) : v[i] = "." \/ is_digit(v[i])
    /\ v # <<>> => v[1] = "." /\ is_digit(v[Len(v)])
    /\ \A i \in 1..(Len(v) - 1) : ~(v[i] = "." /\ v[i + 1] = ".")

\* the terminal reads <soname>.so(.<digits>)*, the soname being k bytes long
SoFormAt(t, k) ==
    /\ k >= 1
    /\ Len(t) >= k + 3
    /\ \A i \in 1..k : is_soname(t[i])
    /\ SubSeq(t, k + 1, k + 3) = SONAME_SEPARATOR
    /\ IsVersionText(Drop(t, k + 3))

IsSoForm(t) == \E k \in 1..Len(t) : SoFormAt(t, k)
SonameLen(t) == CHOOSE k \in 1..Len(t) : SoFormAt(t, k)

\* the base-10 value of a run of digits
RECURSIVE NumberOf(_)
NumberOf(digits) ==
    IF digits = <<>> THEN 0
    ELSE 10 * NumberOf(Take(digits, Len(digits) - 1)) + DigitValue(digits[Len(digits)])

\* the numbers of a text that reads (.<digits>)*
RECURSIVE VersionList(_)
VersionList(v) ==
    IF v = <<>> THEN <<>>
    ELSE The({ Append(VersionList(Take(v, d - 1)), NumberOf(Drop(v, d)))
               : d \in {MaxOf({i \in 1..Len(v) : v[i] = "."})} })

(* C9: take_file gives SharedLibrary(soname, versions) for a terminal that *)
(* reads <soname>.so(.<digits>)* and is followed by whitespace, and for    *)
(* any other terminal Normal holding the whole terminal text; the whole    *)
(* input is consumed either way.                                           *)
C9_SharedLibraryFirst ==
    Called("take_file") =>
       /\ gresult.ok
       /\ gresult.rest = <<>>
       /\ gresult.val =
             IF IsSoForm(ginput.term)
             THEN [tag |-> "SharedLibrary",
                   name |-> Take(ginput.term, SonameLen(ginput.term)),
                   sover |-> VersionList(Drop(ginput.term, SonameLen(ginput.term) + 3))]
             ELSE [tag |-> "Normal", name |-> ginput.term, sover |-> <<>>]

\* the shared-library attempt fails after the marker and a version, and the
\* whole terminal comes back as a normal file
C9_Witness ==
    /\ Called("take_file")
    /\ ginput.term = <<"l", "_", "+", ".", "s", "o", ".", "1", ".", "x">>
    /\ gresult.ok
    /\ gresult.val.tag = "Normal"
    /\ gresult.val.name = ginput.term

(* C21: sover_segment applied to a '.', a run of digits and a tail that    *)
(* starts with no digit gives the base-10 value of the run and leaves the  *)
(* tail, leading zeros counting for nothing; it succeeds on every run      *)
(* whose value fits the machine word, and on a longer run it does not      *)
(* succeed with another number.                                            *)
C21_SoverSegmentValue ==
    Called("sover_segment") =>
        /\ gresult.ok => (gresult.val = NumberOf(ginput.run) /\ gresult.rest = ginput.tail)
        /\ NumberOf(ginput.run) <= usize_MAX => gresult.ok

\* the package a reference with at most two qualifiers stands for
ReferenceValue(ref) ==
    [area |-> IF Len(ref.quals) = 2 THEN Some(ref.quals[1]) ELSE None,
     section |-> IF Len(ref.quals) = 0 THEN None ELSE Some(ref.quals[Len(ref.quals)]),
     name |-> ref.name]

(* C22: take_packages applied to whitespace (possibly none) followed by    *)
(* package references joined by ',' fails when there is no reference, and  *)
(* otherwise succeeds with one element per reference, in the order of the  *)
(* references, repeated references included, leaving what follows the      *)
(* list.                                                                   *)
C22_PackageList ==
    Called("take_packages") =>
        /\ gresult.ok <=> ginput.refs # <<>>
        /\ gresult.ok =>
              /\ gresult.val = [i \in 1..Len(ginput.refs) |-> ReferenceValue(ginput.refs[i])]
              /\ gresult.rest = ginput.tail

\* a list behind whitespace that names the same package twice
C22_Witness ==
    /\ Called("take_packages")
    /\ ginput.text = <<"\t", " ", "s", "/", "p", ",", "z", "s", "h", ",", "s", "/", "p", "\n">>
    /\ gresult.ok
    /\ Len(gresult.val) = 3
    /\ gresult.val[1] = gresult.val[3]

(* C24: parse_multiple_line applied to N well-formed lines separated by    *)
(* newlines, with or without a final newline, succeeds with N entries, the *)
(* i-th being what take_line returns for the i-th line alone; the final    *)
(* newline makes it neither fail nor abort.                                *)
C24_ParseMultipleLine ==
    Called("parse_multiple_line") =>
        /\ gresult.kind = "ok"
        /\ gresult.val = [i \in 1..Len(ginput.lines) |-> take_line(ginput.lines[i]).val]

SegsNonEmpty(segs) == \A i \in 1..Len(segs) : segs[i] # <<>>

C10_LineSplit ==
    (Called("take_line") /\ SegsNonEmpty(ginput.segs)) =>
       /\ gresult.kind = "ok"
       /\ gresult.rest = <<"\n">>
       /\ gresult.val =
             Some(ContentsEntry_new(
                 ContentsPath_new(JoinWith(ginput.segs, <<"/">>), ginput.term),
                 <<PackageName_from_bytes(None, Some(ginput.section), ginput.name)>>))

C10_Witness ==
    /\ Called("take_line")
    /\ Len(ginput.segs) = 2
    /\ SegsNonEmpty(ginput.segs)
    /\ ginput.term.tag = "SharedLibrary"
    /\ ginput.term.sover = <<7, 10>>
    /\ gresult.kind = "ok"
    /\ gresult.rest = <<"\n">>
    /\ gresult.val[1].path.file = ginput.term
    /\ Len(gresult.val[1].packages) = 1

\* the pieces of a text between its '/' bytes
RECURSIVE SplitSlash(_)
SplitSlash(text) ==
    IF \A i \in 1..Len(text) : text[i] # "/" THEN <<text>>
    ELSE <<Take(text, PrefixLen(Bytes \ {"/"}, text))>>
         \o SplitSlash(Drop(text, PrefixLen(Bytes \ {"/"}, text) + 1))

NonEmptyPieces(pieces) ==
    IF pieces = <<>> THEN <<>>
    ELSE SelectSeq(pieces, LAMBDA piece : piece # <<>>)

\* a directory text as a path: whether it starts at the root, and its
\* segments in order, none of them empty
DirectorySegments(text) ==
    [root |-> text # <<>> /\ text[1] = "/", names |-> NonEmptyPieces(SplitSlash(text))]

\* the path text of a take_path argument up to its terminal
DirectoryText ==
    Take(ginput.rendered, Len(ginput.rendered) - Len(File_to_string(ginput.path.file)))

(* C18: the parent of every ContentsPath the path grammar produces is the   *)
(* ordered sequence of the directory segments of the path text, none of    *)
(* them empty, also when the path begins with '/' or holds '//'.           *)
C18_ParentIsDirectorySegments ==
    (Called("take_path") /\ gresult.ok) =>
        DirectorySegments(gresult.val.parent) = DirectorySegments(DirectoryText)

(***************************************************************************)
(* Claims about parse_async, checked under SpecReduce                      *)
(***************************************************************************)
\* the name with every underscore a hyphen and every letter in lower case
NormalizedName(name) ==
    [i \in 1..Len(name) |->
        IF name[i] = "_" THEN "-"
        ELSE IF name[i] \in UpperCase
        THEN The({ LowerChars[j] : j \in {k \in 1..26 : UpperChars[k] = name[i]} })
        ELSE name[i]]

\* the number of dot-separated components of a version, none for an absent
\* version
Components(sover) == IF sover = None THEN 0 ELSE matches_dot_count(sover[1]) + 1

\* the observation the next turn of the loop makes, None when the line is
\* skipped or the source is at its end
NextObservation ==
    IF rsource = <<>> THEN None ELSE ObservedLib(read_until(rsource).buf)

\* the next observation is of a name already in the map and has as many
\* version components as the record retained for it
TieArrives ==
    /\ rpc = "reading"
    /\ NextObservation # None
    /\ MetaLib_get_lib_name(NextObservation[1]) \in DOMAIN ret
    /\ Components(MetaLib_get_sover(ret[MetaLib_get_lib_name(NextObservation[1])]))
         = Components(MetaLib_get_sover(NextObservation[1]))

\* C2: without a filter, the record in the output for a normalized library
\* name carries a version with at least as many components as every
\* observation of that name, in whichever order the observations arrived
C2_MostSpecificRetained ==
    (rpc = "returned" /\ rfilter = None) =>
        \A i \in 1..Len(robs) :
            /\ MetaLib_get_lib_name(robs[i]) \in DOMAIN ret
            /\ Components(MetaLib_get_sover(ret[MetaLib_get_lib_name(robs[i])]))
                 >= Components(MetaLib_get_sover(robs[i]))

\* C3: without a filter, an observation that ties with the retained record
\* of its name leaves the map as it was: the earlier record is kept, with
\* its version string and its package name
C3_FirstSeenWinsOnTies ==
    [][(rfilter = None /\ TieArrives) => ret' = ret]_vars

\* the map parse_async without a filter builds from the bytes read
Unfiltered == ParsedFrom(EmptyMap, None, hasher)

\* C14: with a filter, the output is the unfiltered reduction without the
\* libraries that do not match: a name is in it exactly when the record the
\* unfiltered reduction retains for the name matches the filter, and the
\* record returned for it is that record
C14_FilterAfterReduction ==
    (rpc = "returned" /\ rfilter # None) =>
        /\ DOMAIN ret = {k \in DOMAIN Unfiltered : FilterAccepts(rfilter, Unfiltered[k])}
        /\ \A k \in DOMAIN ret : ret[k] = Unfiltered[k]

\* the Libs of the returned collection whose name normalizes to n, each
\* told by the key it is stored under
ReturnedFor(n) == {k \in DOMAIN ret : NormalizedName(ret[k].library_name) = n}

\* C15: the collection returned holds at most one Lib for each normalized
\* library name, names that differ in letter case or in '_' against '-'
\* being the same name
C15_OnePerNormalizedName ==
    rpc = "returned" =>
        /\ \A i \in 1..Len(robs) :
               Cardinality(ReturnedFor(NormalizedName(robs[i].library_name))) <= 1
        /\ \A k \in DOMAIN ret :
               \E i \in 1..Len(robs) :
                   NormalizedName(ret[k].library_name) = NormalizedName(robs[i].library_name)

C15_Witness ==
    /\ rpc = "returned" /\ rfilter = None
    /\ \E i, j \in 1..Len(robs) :
          /\ robs[i].library_name = <<"l", "i", "b", "_", "b">>
          /\ robs[j].library_name = <<"l", "i", "b", "-", "B">>
    /\ Cardinality(DOMAIN ret) = 1

\* the map the reduction builds from the observations libs, in their order
RECURSIVE ReducedFrom(_, _, _)
ReducedFrom(map, regexOpt, libs) ==
    IF libs = <<>> THEN map
    ELSE ReducedFrom(Reduce(map, regexOpt, Head(libs)), regexOpt, Tail(libs))

\* the orders in which the members of S can be listed
Orders(S) ==
    {f \in [1..Cardinality(S) -> S] : \A i, j \in DOMAIN f : i # j => f[i] # f[j]}

FirstLine(bytes) ==
    IF \E i \in 1..Len(bytes) : bytes[i] = "\n"
    THEN SubSeq(bytes, 1, CHOOSE i \in 1..Len(bytes) :
                              bytes[i] = "\n" /\ \A j \in 1..(i - 1) : bytes[j] # "\n")
    ELSE bytes

(* C20: the hasher starts empty and every line parse_async reads is        *)
(* appended to it whole, once and in input order, whatever the line holds  *)
(* and whatever the filter is; a step that reads nothing leaves it alone.  *)
(* So the bytes fed followed by the bytes not yet read are always the      *)
(* whole input, and after a clean end of input the bytes fed are the whole *)
(* input.                                                                  *)
C20_HasherFedEveryLine ==
    /\ hasher = <<>>
    /\ [][/\ hasher' \o rsource' = hasher \o rsource
          /\ (rsource' # rsource => hasher' = hasher \o FirstLine(rsource))
          /\ (rsource' = rsource => hasher' = hasher)]_vars

\* a filtered run read to clean end of input: one line without usr/lib, one
\* that the filter rejects, nothing retained
C20_Witness ==
    /\ rpc = "returned" /\ rsource = <<>> /\ rfilter # None
    /\ ret = EmptyMap
    /\ Len(robs) = 1
    /\ ~Contains(FirstLine(hasher), UsrLib)
    /\ Len(hasher) > Len(FirstLine(hasher))

(***************************************************************************)
(* Claims about the library values, checked under SpecTranslate            *)
(***************************************************************************)
\* d is the decimal writing of n
IsDecimalOf(d, n) ==
    /\ d # <<>>
    /\ \A i \in 1..Len(d) : d[i] \in Digits
    /\ Len(d) = 1 \/ d[1] # "0"
    /\ NumberOf(d) = n

Returned(kind, fn) ==
    tout # None /\ tinput.kind = kind /\ tout[1].fn = fn

\* C6: get_translated_lib_name returns the normalized name when the version
\* sequence is empty; otherwise the normalized name, a hyphen exactly when
\* the name ends in a digit, and the first version component alone
C6_TranslatedLibName ==
    Returned("translate", "get_translated_lib_name") =>
        IF tinput.sover = <<>> THEN tout[1].val = NormalizedName(tinput.name)
        ELSE /\ StartsWith(tout[1].val, NormalizedName(tinput.name))
             /\ IF tinput.name[Len(tinput.name)] \in Digits
                THEN /\ StartsWith(Drop(tout[1].val, Len(tinput.name)), <<"-">>)
                     /\ IsDecimalOf(Drop(tout[1].val, Len(tinput.name) + 1),
                                    tinput.sover[1])
                ELSE IsDecimalOf(Drop(tout[1].val, Len(tinput.name)), tinput.sover[1])

C6_Witness ==
    /\ Returned("translate", "get_translated_lib_name")
    /\ tinput.name = <<"l", "i", "b", "n", "s", "s", "3">>
    /\ tinput.sover = <<10, 7>>
    /\ tout[1].val = <<"l", "i", "b", "n", "s", "s", "3", "-", "1", "0">>

\* C7: get_translated_dev_name of either Lib is the normalized name followed
\* by "-dev", whatever the version sequence
C7_TranslatedDevName ==
    (tout # None /\ tout[1].fn = "get_translated_dev_name") =>
        tout[1].val = NormalizedName(tinput.name) \o <<"-", "d", "e", "v">>

C7_Witness ==
    /\ Returned("translate", "get_translated_dev_name")
    /\ tinput.name = <<"l", "i", "b", "_", "F", "o", "o">>
    /\ tinput.sover = <<7>>
    /\ tout[1].val = <<"l", "i", "b", "-", "f", "o", "o", "-", "d", "e", "v">>

(* C23: two Lib values with non-empty version sequences whose normalized   *)
(* names differ or whose first version components differ have different   *)
(* translated library names.                                               *)
C23_TranslatedNamesUnambiguous ==
    (/\ Returned("twins", "get_translated_lib_name")
     /\ \/ NormalizedName(tinput.name) # NormalizedName(tinput.name2)
        \/ tinput.sover[1] # tinput.sover2[1])
    => tout[1].val[1] # tout[1].val[2]

=============================================================================
